---- MODULE Spec2Model ----
(***************************************************************************)
(* The Pegasus encoder stack of src/pegasus/encoder.rs: EncoderLayer,      *)
(* PegasusEncoder::new and PegasusEncoder::forward_t.                      *)
(*                                                                         *)
(* Tensors are symbolic terms: every tensor operation the code performs    *)
(* builds a term that records the operation, the parameters it used (by    *)
(* their variable-store path) and its operands, in operand order.  Two     *)
(* tensors are equal exactly when they were computed the same way, so the  *)
(* wiring of the stack is visible in the value of every tensor.            *)
(*                                                                         *)
(* Option<T> is a sequence of length at most one: <<>> is None, <<v>> is   *)
(* Some(v).                                                                *)
(***************************************************************************)
EXTENDS Integers, Sequences, FiniteSets, TLC

VARIABLES config, new_result, encoder, calls, calls_left

vars == <<config, new_result, encoder, calls, calls_left>>

(* ------------------------------ bounds --------------------------------- *)

\* largest configured layer count
MaxLayers == 2
\* forward calls started on the encoder, all callers together
MaxCalls == 3
\* states of the random source a training-mode call may draw its masks from
MaxRng == 2

\* concurrent callers of forward_t
Procs == {"t1", "t2"}
TokenIds == {"ids_a", "ids_b"}
Masks == {<<>>, <<"mask">>}
EmbeddingTables == {"shared"}
\* perfect squares, so that the f64 square root is exact
DModels == {4, 9}
OptBool == {<<>>, <<TRUE>>, <<FALSE>>}
Activations == {<<>>, <<"relu">>}

(* ------------------------------ tensors -------------------------------- *)

\* op: the operation; w: <<layer index or -1, parameter name>>; k: its scalar
T(op, w, k, args) == [op |-> op, w |-> w, k |-> k, args |-> args]
NoParam == <<-1, "">>
NoTensor == T("uninit", NoParam, 0, <<>>)

InputIds(ids) == T("input_ids", <<-1, ids>>, 0, <<>>)
MaskTensor(m) == T("attention_mask", <<-1, m>>, 0, <<>>)
\* input_ids.apply(embeddings)
EmbeddingLookup(ids, table) == T("embedding", <<-1, table>>, 0, <<ids>>)
\* tensor * f64
Mul(t, k) == T("mul", NoParam, k, <<t>>)
\* tensor + tensor, operands in the order written in the code
Add(a, b) == T("add", NoParam, 0, <<a, b>>)
\* x.apply(&layer_norm)
ApplyLayerNorm(ln, x) == T("layer_norm", ln.path, 0, <<x>>)
\* x.apply(&linear)
ApplyLinear(fc, x) == T("linear", fc.path, 0, <<x>>)
\* (self.activation.get_fn())(&x)
ApplyActivation(act, x) == T("activation", <<-1, act>>, 0, <<x>>)
\* _expand_mask(mask, None)
ExpandMask(m) == T("expand_mask", NoParam, 0, <<m>>)
ExpandMaskOpt(mask) == IF mask = <<>> THEN <<>> ELSE <<ExpandMask(MaskTensor(mask[1]))>>
\* self.embed_positions.forward(input_ids, past_key_values_length)
PositionalForward(pe, ids, offset) == T("embed_positions", pe.path, offset, <<ids>>)

(* ------------------------------ dropout -------------------------------- *)

DropoutNew(p) == [p |-> p]

\* Dropout::forward_t: the identity unless training; r is the random outcome
DropoutForwardT(d, x, train, r) ==
    IF train THEN T("dropout", <<-1, d.p>>, r, <<x>>) ELSE x

(* ----------------------------- attention ------------------------------- *)

PegasusAttentionNew(path, embed_dim, num_heads, dropout, is_decoder, store_cache, output_attentions) ==
    [path |-> path, embed_dim |-> embed_dim, num_heads |-> num_heads,
     dropout |-> DropoutNew(dropout), is_decoder |-> is_decoder,
     store_cache |-> store_cache, output_attentions |-> output_attentions]

\* PegasusAttention::forward_t(hidden, None, mask, None, train):
\* (context, weights if built with output_attentions, cache)
PegasusAttentionForwardT(attn, hidden, mask, train, r) ==
    LET operands == <<hidden>> \o mask
        rk == IF train THEN r ELSE 0
    IN [output |-> T("self_attn", attn.path, rk, operands),
        attention_weights |->
            IF attn.output_attentions
            THEN <<T("attn_weights", attn.path, rk, operands)>>
            ELSE <<>>]

(* ---------------------------- EncoderLayer ----------------------------- *)

UnwrapOrFalse(opt) == IF opt = <<>> THEN FALSE ELSE opt[1]

ActivationFunction(cfg) ==
    IF cfg.activation_function = <<>> THEN "gelu" ELSE cfg.activation_function[1]

\* faulty variant: the attention is built without the configured output flag
EncoderLayerNewNoAttentionOutput(layer_index, cfg) ==
    [self_attention |->
        PegasusAttentionNew(<<layer_index, "self_attn">>, cfg.d_model,
                            cfg.encoder_attention_heads, "attention_dropout",
                            FALSE, FALSE, FALSE),
     self_attention_layer_norm |-> [path |-> <<layer_index, "self_attn_layer_norm">>],
     dropout |-> DropoutNew("dropout"),
     activation_dropout |-> DropoutNew("activation_dropout"),
     activation |-> ActivationFunction(cfg),
     fc1 |-> [path |-> <<layer_index, "fc1">>],
     fc2 |-> [path |-> <<layer_index, "fc2">>],
     final_layer_norm |-> [path |-> <<layer_index, "final_layer_norm">>]]

EncoderLayerNew(layer_index, cfg) ==
    LET output_attention == UnwrapOrFalse(cfg.output_attentions)
    IN [self_attention |->
            PegasusAttentionNew(<<layer_index, "self_attn">>, cfg.d_model,
                                cfg.encoder_attention_heads, "attention_dropout",
                                FALSE, FALSE, output_attention),
        self_attention_layer_norm |-> [path |-> <<layer_index, "self_attn_layer_norm">>],
        dropout |-> DropoutNew("dropout"),
        activation_dropout |-> DropoutNew("activation_dropout"),
        activation |-> ActivationFunction(cfg),
        fc1 |-> [path |-> <<layer_index, "fc1">>],
        fc2 |-> [path |-> <<layer_index, "fc2">>],
        final_layer_norm |-> [path |-> <<layer_index, "final_layer_norm">>]]

\* faulty variant: the second residual is taken after final_layer_norm
EncoderLayerForwardTNormedResidual(layer, x, encoder_attention_mask, train, r) ==
    LET normed == ApplyLayerNorm(layer.self_attention_layer_norm, x)
        att == PegasusAttentionForwardT(layer.self_attention, normed,
                                        encoder_attention_mask, train, r)
        output1 == Add(DropoutForwardT(layer.dropout, att.output, train, r), x)
        output2 == ApplyLayerNorm(layer.final_layer_norm, output1)
        residual == output2
        output3 == ApplyActivation(layer.activation, ApplyLinear(layer.fc1, output2))
        output4 == DropoutForwardT(layer.dropout,
                       ApplyLinear(layer.fc2,
                           DropoutForwardT(layer.activation_dropout, output3, train, r)),
                       train, r)
    IN [output |-> Add(output4, residual),
        attention_weights |-> att.attention_weights]

EncoderLayerForwardT(layer, x, encoder_attention_mask, train, r) ==
    LET normed == ApplyLayerNorm(layer.self_attention_layer_norm, x)
        att == PegasusAttentionForwardT(layer.self_attention, normed,
                                        encoder_attention_mask, train, r)
        output1 == Add(DropoutForwardT(layer.dropout, att.output, train, r), x)
        residual == output1
        output2 == ApplyLayerNorm(layer.final_layer_norm, output1)
        output3 == ApplyActivation(layer.activation, ApplyLinear(layer.fc1, output2))
        output4 == DropoutForwardT(layer.dropout,
                       ApplyLinear(layer.fc2,
                           DropoutForwardT(layer.activation_dropout, output3, train, r)),
                       train, r)
    IN [output |-> Add(output4, residual),
        attention_weights |-> att.attention_weights]

(* --------------------------- PegasusEncoder ---------------------------- *)

\* (d_model as f64).sqrt(), exact on the perfect squares of DModels
Sqrt(n) == CHOOSE k \in 0..n : k * k = n

\* faulty variant: any set flag scales, whatever its value
ScaleEmbeddingAnyFlag(cfg) ==
    IF cfg.scale_embedding # <<>> THEN Sqrt(cfg.d_model) ELSE 1

ScaleEmbedding(cfg) ==
    IF cfg.scale_embedding # <<>> /\ cfg.scale_embedding[1]
    THEN Sqrt(cfg.d_model)
    ELSE 1

\* for layer_index in 0..config.encoder_layers { layers.push(...) }
RECURSIVE BuildLayers(_, _)
BuildLayers(n, cfg) ==
    IF n <= 0 THEN <<>>
    ELSE Append(BuildLayers(n - 1, cfg), EncoderLayerNew(n - 1, cfg))

\* faulty variant: the inclusive range 0..=encoder_layers
EncoderLayersInclusive(cfg) == BuildLayers(cfg.encoder_layers + 1, cfg)

EncoderLayers(cfg) == BuildLayers(cfg.encoder_layers, cfg)

PegasusEncoderNew(cfg) ==
    [dropout |-> DropoutNew("dropout"),
     layer_norm |-> [path |-> <<-1, "layer_norm">>],
     layers |-> EncoderLayers(cfg),
     embed_positions |-> [path |-> <<-1, "embed_positions">>],
     output_attentions |-> UnwrapOrFalse(cfg.output_attentions),
     output_hidden_states |-> UnwrapOrFalse(cfg.output_hidden_states),
     scale_embedding |-> ScaleEmbedding(cfg)]

\* the encoder variable before PegasusEncoder::new has returned
NotConstructed ==
    [dropout |-> DropoutNew("none"),
     layer_norm |-> [path |-> NoParam],
     layers |-> <<>>,
     embed_positions |-> [path |-> NoParam],
     output_attentions |-> FALSE,
     output_hidden_states |-> FALSE,
     scale_embedding |-> 0]

Configs ==
    [d_model : DModels,
     encoder_attention_heads : {1},
     encoder_ffn_dim : {16},
     encoder_layers : -1..MaxLayers,
     activation_function : Activations,
     output_attentions : OptBool,
     output_hidden_states : OptBool,
     scale_embedding : OptBool]

\* a caller with no forward call in progress and no result in hand
Idle ==
    [pc |-> "idle", input_ids |-> "", mask |-> <<>>, embeddings |-> "",
     train |-> FALSE, rng |-> 0, attention_mask |-> <<>>, x |-> NoTensor,
     all_hidden_states |-> <<>>, all_attentions |-> <<>>,
     hidden_state |-> NoTensor, attention_weights |-> <<>>,
     layer_iter |-> 0, out |-> <<>>]

\* configurations of the runs that follow several forward calls: the deepest
\* stack, with both collectors or with none
ConfigsCalls ==
    {cfg \in Configs : /\ cfg.d_model = 4
                       /\ cfg.encoder_layers = MaxLayers
                       /\ cfg.activation_function = <<>>
                       /\ cfg.scale_embedding = <<TRUE>>
                       /\ cfg.output_attentions \in {<<>>, <<TRUE>>}
                       /\ cfg.output_hidden_states = cfg.output_attentions}

InitWith(cfgs, n) ==
    /\ config \in cfgs
    /\ new_result = "pending"
    /\ encoder = NotConstructed
    /\ calls = [c \in Procs |-> Idle]
    /\ calls_left = n

\* every configuration, one forward call
Init == InitWith(Configs, 1)

\* MaxCalls forward calls, concurrent or in sequence
InitCalls == InitWith(ConfigsCalls, MaxCalls)

New ==
    /\ new_result = "pending"
    /\ new_result' = "returned"
    /\ encoder' = PegasusEncoderNew(config)
    /\ UNCHANGED <<config, calls, calls_left>>

\* faulty variant: the embedding dropout is applied whatever the training flag
PostEmbeddingTrainDropout(enc, input_ids, embeddings, train, r) ==
    LET x0 == Mul(EmbeddingLookup(InputIds(input_ids), embeddings), enc.scale_embedding)
        x1 == Add(x0, PositionalForward(enc.embed_positions, InputIds(input_ids), 0))
    IN DropoutForwardT(enc.dropout, x1, TRUE, r)

\* the tensor x of forward_t: scaled embeddings plus positions, after dropout
PostEmbedding(enc, input_ids, embeddings, train, r) ==
    LET x0 == Mul(EmbeddingLookup(InputIds(input_ids), embeddings), enc.scale_embedding)
        x1 == Add(x0, PositionalForward(enc.embed_positions, InputIds(input_ids), 0))
    IN DropoutForwardT(enc.dropout, x1, train, r)

\* what the caller keeps once the call is over: its arguments, and the random
\* source it drew from when that source was used
AfterCall(call, pc, out) ==
    [Idle EXCEPT !.pc = pc, !.input_ids = call.input_ids, !.mask = call.mask,
                 !.embeddings = call.embeddings, !.train = call.train,
                 !.rng = IF call.train THEN call.rng ELSE 0,
                 !.out = out]

\* forward_t up to the loop: mask expansion, embedding, collectors
ForwardBegin(c, input_ids, mask, embeddings, train, r) ==
    /\ new_result = "returned"
    /\ calls[c].pc \in {"idle", "returned", "panicked"}
    /\ calls_left > 0
    /\ LET x2 == PostEmbedding(encoder, input_ids, embeddings, train, r)
       IN calls' = [calls EXCEPT ![c] =
              [pc |-> "loop", input_ids |-> input_ids, mask |-> mask,
               embeddings |-> embeddings, train |-> train, rng |-> r,
               attention_mask |-> ExpandMaskOpt(mask),
               x |-> x2,
               all_hidden_states |->
                   IF encoder.output_hidden_states THEN << <<>> >> ELSE <<>>,
               all_attentions |->
                   IF encoder.output_attentions THEN << <<>> >> ELSE <<>>,
               hidden_state |-> x2,
               attention_weights |-> <<>>,
               layer_iter |-> 0,
               out |-> <<>>]]
    /\ calls_left' = calls_left - 1
    /\ UNCHANGED <<config, new_result, encoder>>

PushOpt(collector, t) ==
    IF collector = <<>> THEN <<>> ELSE <<Append(collector[1], t)>>

\* faulty variant: the collector keeps only the weights of the layer just run
LayerStepWithLastOnly(c, layer) ==
    LET call == calls[c]
        hs == PushOpt(call.all_hidden_states, call.hidden_state)
        temp == EncoderLayerForwardT(layer, call.hidden_state,
                                     call.attention_mask, call.train, call.rng)
    IN IF call.all_attentions # <<>> /\ temp.attention_weights = <<>>
       THEN calls' = [calls EXCEPT ![c] = AfterCall(call, "panicked", <<>>)]
       ELSE calls' = [calls EXCEPT ![c] =
                [call EXCEPT !.all_hidden_states = hs,
                             !.hidden_state = temp.output,
                             !.attention_weights = temp.attention_weights,
                             !.all_attentions =
                                 IF call.all_attentions = <<>> THEN <<>>
                                 ELSE << <<temp.attention_weights[1]>> >>,
                             !.layer_iter = call.layer_iter + 1]]

\* faulty variant: absent weights are skipped (if let Some) instead of unwrapped
LayerStepWithSkipAbsent(c, layer) ==
    LET call == calls[c]
        hs == PushOpt(call.all_hidden_states, call.hidden_state)
        temp == EncoderLayerForwardT(layer, call.hidden_state,
                                     call.attention_mask, call.train, call.rng)
    IN calls' = [calls EXCEPT ![c] =
           [call EXCEPT !.all_hidden_states = hs,
                        !.hidden_state = temp.output,
                        !.attention_weights = temp.attention_weights,
                        !.all_attentions =
                            IF call.all_attentions = <<>> \/ temp.attention_weights = <<>>
                            THEN call.all_attentions
                            ELSE <<Append(call.all_attentions[1],
                                          temp.attention_weights[1])>>,
                        !.layer_iter = call.layer_iter + 1]]

\* one iteration of `for layer in &self.layers`, run on `layer`
LayerStepWith(c, layer) ==
    LET call == calls[c]
        hs == PushOpt(call.all_hidden_states, call.hidden_state)
        temp == EncoderLayerForwardT(layer, call.hidden_state,
                                     call.attention_mask, call.train, call.rng)
    IN IF call.all_attentions # <<>> /\ temp.attention_weights = <<>>
       THEN \* attention_weights.as_ref().unwrap() panics; the locals are dropped
            calls' = [calls EXCEPT ![c] = AfterCall(call, "panicked", <<>>)]
       ELSE calls' = [calls EXCEPT ![c] =
                [call EXCEPT !.all_hidden_states = hs,
                             !.hidden_state = temp.output,
                             !.attention_weights = temp.attention_weights,
                             !.all_attentions =
                                 IF call.all_attentions = <<>> THEN <<>>
                                 ELSE <<Append(call.all_attentions[1],
                                               temp.attention_weights[1])>>,
                             !.layer_iter = call.layer_iter + 1]]

\* faulty variant: the layers are visited last to first
LayerStepReversed(c) ==
    /\ calls[c].pc = "loop"
    /\ calls[c].layer_iter < Len(encoder.layers)
    /\ LayerStepWith(c, encoder.layers[Len(encoder.layers) - calls[c].layer_iter])
    /\ UNCHANGED <<config, new_result, encoder, calls_left>>

\* faulty variant: the running hidden state is one slot shared by the calls in flight
LayerStepSharedState(c) ==
    /\ calls[c].pc = "loop"
    /\ calls[c].layer_iter < Len(encoder.layers)
    /\ \E d \in Procs :
          /\ calls[d].pc = "loop"
          /\ LET call == calls[c]
                 temp == EncoderLayerForwardT(encoder.layers[call.layer_iter + 1],
                                              calls[d].hidden_state,
                                              call.attention_mask, call.train, call.rng)
             IN calls' = [calls EXCEPT ![c] =
                    [call EXCEPT !.all_hidden_states =
                                     PushOpt(call.all_hidden_states, calls[d].hidden_state),
                                 !.hidden_state = temp.output,
                                 !.attention_weights = temp.attention_weights,
                                 !.all_attentions =
                                     IF call.all_attentions = <<>> THEN <<>>
                                     ELSE <<Append(call.all_attentions[1],
                                                   temp.attention_weights[1])>>,
                                 !.layer_iter = call.layer_iter + 1]]
    /\ UNCHANGED <<config, new_result, encoder, calls_left>>

LayerStep(c) ==
    /\ calls[c].pc = "loop"
    /\ calls[c].layer_iter < Len(encoder.layers)
    /\ LayerStepWith(c, encoder.layers[calls[c].layer_iter + 1])
    /\ UNCHANGED <<config, new_result, encoder, calls_left>>

\* faulty variant: the hidden state after the last layer is not collected
EncoderOutputNoLastPush(enc, call) ==
    [hidden_state |-> ApplyLayerNorm(enc.layer_norm, call.hidden_state),
     all_hidden_states |-> call.all_hidden_states,
     all_attentions |-> call.all_attentions]

\* the last push and the PegasusEncoderOutput built after the loop
EncoderOutput(enc, call) ==
    [hidden_state |-> ApplyLayerNorm(enc.layer_norm, call.hidden_state),
     all_hidden_states |-> PushOpt(call.all_hidden_states, call.hidden_state),
     all_attentions |-> call.all_attentions]

\* forward_t after the loop: last push, final normalization, return
ForwardEnd(c) ==
    /\ calls[c].pc = "loop"
    /\ calls[c].layer_iter = Len(encoder.layers)
    /\ LET call == calls[c]
           output == EncoderOutput(encoder, call)
       IN calls' = [calls EXCEPT ![c] = AfterCall(call, "returned", <<output>>)]
    /\ UNCHANGED <<config, new_result, encoder, calls_left>>

\* the same iteration when the attention collaborator does not honour the
\* output flag it was built with
FaultyLayerStep(c) ==
    /\ calls[c].pc = "loop"
    /\ calls[c].layer_iter < Len(encoder.layers)
    /\ \E b \in BOOLEAN :
          LayerStepWith(c, [encoder.layers[calls[c].layer_iter + 1]
                              EXCEPT !.self_attention.output_attentions = b])
    /\ UNCHANGED <<config, new_result, encoder, calls_left>>

Next ==
    \/ New
    \/ \E c \in Procs, ids \in TokenIds, mask \in Masks, emb \in EmbeddingTables,
          train \in BOOLEAN, r \in 1..MaxRng :
          ForwardBegin(c, ids, mask, emb, train, r)
    \/ \E c \in Procs : LayerStep(c)
    \/ \E c \in Procs : ForwardEnd(c)

Spec == Init /\ [][Next]_vars

SpecCalls == InitCalls /\ [][Next]_vars

NextFaulty ==
    \/ New
    \/ \E c \in Procs, ids \in TokenIds, mask \in Masks, emb \in EmbeddingTables,
          train \in BOOLEAN, r \in 1..MaxRng :
          ForwardBegin(c, ids, mask, emb, train, r)
    \/ \E c \in Procs : FaultyLayerStep(c)
    \/ \E c \in Procs : ForwardEnd(c)

\* every configuration, one forward call, attention unconstrained
SpecFaulty == Init /\ [][NextFaulty]_vars

(* ===================== reference formulas of the claims ================= *)

\* N: the layer count of the constructed encoder
N == Len(encoder.layers)

CollectHidden == config.output_hidden_states = <<TRUE>>
CollectAttentions == config.output_attentions = <<TRUE>>

RefActivation ==
    IF config.activation_function = <<>> THEN "gelu" ELSE config.activation_function[1]

RefDropout(name, x, train, r) ==
    IF train THEN T("dropout", <<-1, name>>, r, <<x>>) ELSE x

RefLayerNorm(i, name, x) == T("layer_norm", <<i, name>>, 0, <<x>>)
RefLinear(i, name, x) == T("linear", <<i, name>>, 0, <<x>>)

\* the mask every layer receives: the expanded mask, or none
RefMask(call) ==
    IF call.mask = <<>> THEN <<>>
    ELSE <<T("expand_mask", NoParam, 0, <<MaskTensor(call.mask[1])>>)>>

\* SelfAttention(norm_a(x), mask) of layer i (numbered from 1), and its weights
RefAttention(op, i, x, call) ==
    T(op, <<i - 1, "self_attn">>, IF call.train THEN call.rng ELSE 0,
      <<RefLayerNorm(i - 1, "self_attn_layer_norm", x)>> \o RefMask(call))

\* r = x + dropout(SelfAttention(norm_a(x), mask)); IEEE addition commutes, the
\* operands are written in the order of the code
RefResidual(i, x, call) ==
    Add(RefDropout("dropout", RefAttention("self_attn", i, x, call),
                   call.train, call.rng), x)

\* r + dropout(fc2(dropout(activation(fc1(norm_b(r))))))
RefLayer(i, x, call) ==
    LET res == RefResidual(i, x, call)
        ffn == RefDropout("dropout",
                   RefLinear(i - 1, "fc2",
                       RefDropout("activation_dropout",
                           T("activation", <<-1, RefActivation>>, 0,
                             <<RefLinear(i - 1, "fc1",
                                   RefLayerNorm(i - 1, "final_layer_norm", res))>>),
                           call.train, call.rng)),
                   call.train, call.rng)
    IN Add(ffn, res)

\* embedding * scale + positions, after dropout
RefPostEmbedding(call) ==
    LET ids == InputIds(call.input_ids)
    IN RefDropout("dropout",
           Add(Mul(T("embedding", <<-1, call.embeddings>>, 0, <<ids>>),
                   encoder.scale_embedding),
               T("embed_positions", <<-1, "embed_positions">>, 0, <<ids>>)),
           call.train, call.rng)

\* the output of layer n on top of layers n-1, ..., 1 on the post-embedding tensor
RECURSIVE RefStack(_, _)
RefStack(n, call) ==
    IF n = 0 THEN RefPostEmbedding(call)
    ELSE RefLayer(n, RefStack(n - 1, call), call)

Returned(c) == calls[c].pc = "returned"
InLoop(c) == calls[c].pc = "loop"
Out(c) == calls[c].out[1]

(* ------------------------------- C1 ------------------------------------ *)

\* C1: with hidden-state collection enabled, a returned all_hidden_states has
\* exactly N + 1 entries: entry 0 is the post-embedding tensor, entry i is the
\* output of layer i on entry i - 1, and the primary output is the final
\* normalization of entry N.
C1_HiddenStates ==
    \A c \in Procs :
        (Returned(c) /\ CollectHidden) =>
            /\ Out(c).all_hidden_states # <<>>
            /\ LET ahs == Out(c).all_hidden_states[1]
               IN /\ Len(ahs) = N + 1
                  /\ ahs[1] = RefPostEmbedding(calls[c])
                  /\ \A i \in 1..N : ahs[i + 1] = RefLayer(i, ahs[i], calls[c])
                  /\ Out(c).hidden_state = RefLayerNorm(-1, "layer_norm", ahs[N + 1])

C1_Witness ==
    \E c \in Procs :
        /\ Returned(c) /\ CollectHidden /\ N = MaxLayers
        /\ Len(Out(c).all_hidden_states[1]) = MaxLayers + 1

(* ------------------------------- C2 ------------------------------------ *)

\* C2: with attention-weight collection enabled, a returned all_attentions has
\* exactly N entries, entry i being the weights layer i returned, in layer
\* order; during the loop one entry has been appended per layer run so far.
C2_Attentions ==
    \A c \in Procs :
        CollectAttentions =>
            /\ Returned(c) =>
                 /\ Out(c).all_attentions # <<>>
                 /\ Len(Out(c).all_attentions[1]) = N
                 /\ \A i \in 1..N :
                      Out(c).all_attentions[1][i] =
                          RefAttention("attn_weights", i, RefStack(i - 1, calls[c]), calls[c])
            /\ InLoop(c) =>
                 /\ calls[c].all_attentions # <<>>
                 /\ Len(calls[c].all_attentions[1]) = calls[c].layer_iter
                 /\ calls[c].layer_iter > 0 =>
                      calls[c].attention_weights =
                          <<calls[c].all_attentions[1][calls[c].layer_iter]>>

C2_Witness ==
    \E c \in Procs :
        /\ Returned(c) /\ CollectAttentions /\ N = MaxLayers
        /\ Len(Out(c).all_attentions[1]) = MaxLayers

(* ------------------------------- C3 ------------------------------------ *)

\* C3: every run of a layer takes the hidden state x to
\* r + dropout(fc2(dropout(activation(fc1(norm_b(r)))))) with
\* r = x + dropout(SelfAttention(norm_a(x), mask)): both residuals are the
\* un-normalized tensors.
C3_LayerFormula ==
    [][\A c \in Procs :
          (InLoop(c) /\ calls'[c].pc = "loop"
             /\ calls'[c].layer_iter = calls[c].layer_iter + 1) =>
              calls'[c].hidden_state =
                  RefLayer(calls[c].layer_iter + 1, calls[c].hidden_state, calls[c])]_vars

C3_Witness ==
    \E c \in Procs :
        /\ InLoop(c) /\ calls[c].layer_iter = 1 /\ calls[c].train
        /\ calls[c].hidden_state = RefLayer(1, calls[c].x, calls[c])

(* ------------------------------- C4 ------------------------------------ *)

\* C4: after k iterations the running hidden state is layer k on layer k-1 ...
\* on layer 1 on the post-embedding tensor, every layer with the same expanded
\* mask (or none); the returned primary output is the final normalization,
\* applied once, of the N-layer result.
C4_Sequential ==
    \A c \in Procs :
        /\ InLoop(c) =>
             /\ calls[c].layer_iter \in 0..N
             /\ calls[c].hidden_state = RefStack(calls[c].layer_iter, calls[c])
        /\ Returned(c) =>
             Out(c).hidden_state = RefLayerNorm(-1, "layer_norm", RefStack(N, calls[c]))

C4_Witness ==
    \E c \in Procs :
        /\ Returned(c) /\ N = MaxLayers /\ calls[c].mask # <<>>
        /\ Out(c).hidden_state.op = "layer_norm"

(* ------------------------------- C5 ------------------------------------ *)

\* the factor the claim states: sqrt(d_model) when the flag is Some(true), else 1
ExpectedScale ==
    IF config.scale_embedding = <<TRUE>>
    THEN CHOOSE k \in 1..config.d_model : k * k = config.d_model
    ELSE 1

\* the embedding product inside the tensor x of a call
ScaledEmbedding(call) ==
    LET sum == IF call.train THEN call.x.args[1] ELSE call.x
    IN sum.args[1]

\* C5: the constructed encoder's factor is sqrt(d_model) exactly when
\* scale_embedding is Some(true) and 1 otherwise, and every forward call
\* multiplies the looked-up embeddings by that factor.
C5_Scale ==
    /\ new_result = "returned" => encoder.scale_embedding = ExpectedScale
    /\ \A c \in Procs :
         InLoop(c) =>
            ScaledEmbedding(calls[c]) =
                Mul(EmbeddingLookup(InputIds(calls[c].input_ids), calls[c].embeddings),
                    ExpectedScale)

C5_Witness ==
    \E c \in Procs :
        /\ InLoop(c) /\ config.scale_embedding = <<TRUE>> /\ config.d_model = 9
        /\ ScaledEmbedding(calls[c]).k = 3

(* ------------------------------- C6 ------------------------------------ *)

\* C6 as stated: construction from a non-positive layer count fails, and no
\* encoder with zero layers is produced.
C6_Original ==
    new_result = "returned" => (config.encoder_layers > 0 /\ N > 0)

\* C6 as amended: construction from a non-positive layer count does not fail;
\* it returns an encoder with zero layers (and otherwise one layer per count).
C6_Amended ==
    /\ new_result = "pending" => ENABLED New
    /\ new_result = "returned" =>
          N = (IF config.encoder_layers <= 0 THEN 0 ELSE config.encoder_layers)

C6_Witness ==
    /\ new_result = "returned" /\ config.encoder_layers <= 0 /\ N = 0
    /\ \E c \in Procs : Returned(c)

(* ------------------------------- C7 ------------------------------------ *)

Complete(out) ==
    /\ out.all_attentions # <<>> => Len(out.all_attentions[1]) = N
    /\ out.all_hidden_states # <<>> => Len(out.all_hidden_states[1]) = N + 1

\* C7: a call whose layer returned no weights while collection is enabled
\* panics at that layer and returns nothing; every output returned is complete,
\* and a call still running has collected weights from every layer it has run.
C7_NoPartialResult ==
    \A c \in Procs :
        /\ calls[c].pc = "panicked" => calls[c].out = <<>>
        /\ calls[c].out # <<>> => (Returned(c) /\ Complete(Out(c)))
        /\ (InLoop(c) /\ calls[c].all_attentions # <<>>) =>
              Len(calls[c].all_attentions[1]) = calls[c].layer_iter

C7_Witness ==
    \E c \in Procs :
        /\ calls[c].pc = "panicked" /\ CollectAttentions /\ calls[c].out = <<>>

(* ------------------------------- C8 ------------------------------------ *)

RECURSIVE HasOp(_, _)
HasOp(t, op) ==
    \/ t.op = op
    \/ \E j \in 1..Len(t.args) : HasOp(t.args[j], op)

SameArguments(a, b) ==
    /\ a.input_ids = b.input_ids /\ a.mask = b.mask /\ a.embeddings = b.embeddings

\* C8: with training disabled no dropout is applied, and two returned calls with
\* the same token ids, mask and embedding table hold identical outputs, whatever
\* the random source was and whatever calls ran before or between them.
C8_Deterministic ==
    \A c \in Procs :
        (Returned(c) /\ ~calls[c].train) =>
            /\ ~HasOp(Out(c).hidden_state, "dropout")
            /\ \A d \in Procs :
                 (Returned(d) /\ ~calls[d].train /\ SameArguments(calls[c], calls[d]))
                     => Out(c) = Out(d)

C8_Witness ==
    /\ calls_left = 0 /\ N = MaxLayers /\ CollectHidden /\ CollectAttentions
    /\ Returned("t1") /\ Returned("t2")
    /\ ~calls["t1"].train /\ ~calls["t2"].train
    /\ SameArguments(calls["t1"], calls["t2"])

(* ------------------------------- C9 ------------------------------------ *)

\* the layers 1..n run one after the other on x, as one call alone runs them
RECURSIVE RunLayers(_, _, _)
RunLayers(n, x, mask) ==
    IF n = 0 THEN x
    ELSE EncoderLayerForwardT(encoder.layers[n], RunLayers(n - 1, x, mask),
                              mask, FALSE, 0).output

RunAloneHidden(n, call) ==
    RunLayers(n, PostEmbedding(encoder, call.input_ids, call.embeddings, FALSE, 0),
              ExpandMaskOpt(call.mask))

\* the PegasusEncoderOutput of an evaluation-mode call that runs alone
RunAlone(call) ==
    [hidden_state |-> ApplyLayerNorm(encoder.layer_norm, RunAloneHidden(N, call)),
     all_hidden_states |->
         IF encoder.output_hidden_states
         THEN <<[i \in 1..(N + 1) |-> RunAloneHidden(i - 1, call)]>>
         ELSE <<>>,
     all_attentions |->
         IF encoder.output_attentions
         THEN <<[i \in 1..N |->
                   EncoderLayerForwardT(encoder.layers[i], RunAloneHidden(i - 1, call),
                                        ExpandMaskOpt(call.mask), FALSE, 0)
                       .attention_weights[1]]>>
         ELSE <<>>]

\* C9: forward calls leave the encoder as new built it, and under every
\* interleaving an evaluation-mode call's running hidden state and returned
\* output are those of the same call run alone.
C9_Concurrent ==
    /\ new_result = "returned" => encoder = PegasusEncoderNew(config)
    /\ \A c \in Procs :
         ~calls[c].train =>
            /\ InLoop(c) =>
                 calls[c].hidden_state = RunAloneHidden(calls[c].layer_iter, calls[c])
            /\ Returned(c) => Out(c) = RunAlone(calls[c])

C9_Witness ==
    /\ N = MaxLayers
    /\ InLoop("t1") /\ ~calls["t1"].train /\ calls["t1"].layer_iter = 1
    /\ InLoop("t2") /\ ~calls["t2"].train /\ calls["t2"].layer_iter = 1
    /\ ~SameArguments(calls["t1"], calls["t2"])

(* ------------------------------- C10 ----------------------------------- *)

\* C10: the stack's flag and every layer's attention flag equal the configured
\* output_attentions (false when unset), no call panics on absent weights, and
\* the returned collectors are present exactly when their flags are true.
C10_FlagsAgree ==
    /\ new_result = "returned" =>
          /\ encoder.output_attentions = CollectAttentions
          /\ \A i \in 1..N :
                encoder.layers[i].self_attention.output_attentions = CollectAttentions
    /\ \A c \in Procs :
          /\ calls[c].pc # "panicked"
          /\ Returned(c) =>
                /\ (Out(c).all_attentions # <<>>) = CollectAttentions
                /\ (Out(c).all_hidden_states # <<>>) = CollectHidden

C10_Witness ==
    \E c \in Procs :
        /\ Returned(c) /\ CollectAttentions /\ ~CollectHidden /\ N >= 1
        /\ Out(c).all_attentions # <<>> /\ Out(c).all_hidden_states = <<>>

====
